---- MODULE Spec2Model ----
(***************************************************************************)
(* Model of the circle-cover script (dzzones): computeMinimumCircles, the  *)
(* greedy fixed-radius disk cover whose candidate centers are the points   *)
(* that are still uncovered.                                               *)
(*                                                                         *)
(* A point object is a record [id, x, y]: id stands for the identity of    *)
(* the JavaScript object (the caller builds one object per input entry),   *)
(* so two points with equal coordinates are still different objects and    *)
(* indexOf, which compares by identity, tells them apart.                  *)
(*                                                                         *)
(* Arrays are mutable objects: `arrays` is the heap, from array reference  *)
(* to contents.  `points` is the reference the caller passes and           *)
(* `uncoveredPoints` the reference the function works on.                  *)
(* `run` counts the calls made on the argument array and `firstCover`      *)
(* keeps what the first call returned (SpecRepeat only).                   *)
(* `options` are the parsed command-line options, `stdout` the lines       *)
(* printed so far, and `other` the frame (parameters and locals) of a      *)
(* second computation that runs beside the first (SpecPair only).          *)
(*                                                                         *)
(* Numbers are integers.  The two non-finite values the script can meet    *)
(* are integers outside the range of every finite value of the model:      *)
(* Infinity, and NaN; the operators that model arithmetic and comparison   *)
(* treat them as JavaScript does.                                          *)
(*                                                                         *)
(* Coordinates and radii are small integers.  For integers dx, dy, r the   *)
(* test Math.hypot(dx, dy) <= r is the test dx*dx + dy*dy <= r*r; within   *)
(* the bounds below the only pairs at distance exactly r are axis-aligned, *)
(* where hypot is exact.                                                   *)
(***************************************************************************)
EXTENDS Integers, Sequences, FiniteSets, TLC

VARIABLES arrays, maxRadius, uncoveredPoints, circles, bestCircle,
          maxCovered, i, pc, run, firstCover, options, stdout, other,
          version, argMap, disk, io, primaryJSON, translation, jsonFiles,
          xmlFiles

vars == <<arrays, maxRadius, uncoveredPoints, circles, bestCircle,
          maxCovered, i, pc, run, firstCover, options, stdout, other,
          version, argMap, disk, io, primaryJSON, translation, jsonFiles,
          xmlFiles>>

\* the state of the warp script (dzwarp) and that of the circle-cover script
warpVars == <<version, argMap, disk, io, primaryJSON, translation, jsonFiles,
              xmlFiles>>
zoneVars == <<arrays, maxRadius, uncoveredPoints, circles, bestCircle,
              maxCovered, i, run, firstCover, options, stdout, other>>

\* ---- bounds ----
MaxPoints == 3
MaxX == 2
MaxY == 1
MaxRadiusBound == 2
\* the length of the input in the specifications with a second dimension
\* (fairness, invalid options and values, a second computation)
MaxFewPoints == 2
\* the length of the second computation's input
MaxOtherPoints == 1
\* the heights of the positions of the point extraction
MaxHeight == 1
\* the coordinates of the positions, warp coordinates and offsets of dzwarp
MaxCoord == 1

\* ---- values ----
\* the floating-point values Infinity and NaN
Infinity == 1000 * 1000
NaN == Infinity + 1

\* an option that was not given, a variable not yet assigned
Undefined == 0 - (Infinity + 2)

\* the array the caller passes as `points`
points == "arg"

\* bestCircle = null
Null == [null |-> TRUE]

\* No array: the value of uncoveredPoints before the function is entered
NoRef == "none"

\* the values of the options --input, --type and --sid when given
GivenInput == 1
GivenType == 1
GivenSid == 1

\* the frame of a computation that has not been called
IdleFrame ==
    [points |-> NoRef, maxRadius |-> Undefined, uncoveredPoints |-> NoRef,
     circles |-> <<>>, bestCircle |-> Null, maxCovered |-> 0, i |-> 0,
     pc |-> "idle"]

\* the coordinate pairs an entry of Objects may carry
Grid == (0..MaxX) \X (0..MaxY)

\* the caller's map: the point built for the next entry of Objects is a
\* fresh object { x, y }, placed after those built so far
NewPoint(list, g) == [id |-> Len(list) + 1, x |-> g[1], y |-> g[2]]

\* ---- helpers of computeMinimumCircles ----

\* const uncoveredPoints = [...points]: the spread builds a new array
AliasedArrayRef == points
NewArrayRef == "copy"

\* while (uncoveredPoints.length > 0)
WhileCondDoWhile(len) == len >= 0
WhileCondOffByOne(len) == len > 1
WhileCond(len) == len > 0

\* let maxCovered = 0
MaxCoveredStart == 0

\* a - b on floating-point values: NaN if either is NaN
Minus(a, b) == IF a = NaN \/ b = NaN THEN NaN ELSE a - b

\* Math.hypot(dx, dy) <= radius: false if anything is NaN, true of finite
\* dx, dy if radius is Infinity, false if radius is negative
HypotLeq(dx, dy, radius) ==
    /\ dx # NaN /\ dy # NaN /\ radius # NaN
    /\ radius >= 0
    /\ (radius = Infinity \/ dx * dx + dy * dy <= radius * radius)

\* Math.hypot(point.x - center.x, point.y - center.y) <= maxRadius
WithinStrict(point, center, radius) ==
    (point.x - center.x) * (point.x - center.x)
      + (point.y - center.y) * (point.y - center.y) < radius * radius
WithinOther(point, center, radius) ==
    /\ point.id # center.id
    /\ (point.x - center.x) * (point.x - center.x)
         + (point.y - center.y) * (point.y - center.y) <= radius * radius
Within(point, center, radius) ==
    LET dx == Minus(point.x, center.x)
        dy == Minus(point.y, center.y)
    IN  HypotLeq(dx, dy, radius)

\* the inner loop over j: the uncovered points within maxRadius of center,
\* in the order of the uncovered list
CoveredPoints(uncovered, center, radius) ==
    SelectSeq(uncovered, LAMBDA point : Within(point, center, radius))

\* if (coveredPoints.length > maxCovered)
IsBetterOrEqual(len, best) == len >= best
IsBetter(len, best) == len > best

\* bestCircle = { center, radius: maxRadius, points: coveredPoints }
MakeCircleSwapped(center, radius, coveredPoints) ==
    [center |-> [id |-> center.id, x |-> center.y, y |-> center.x],
     radius |-> radius, points |-> coveredPoints]
MakeCircleShrunk(center, radius, coveredPoints) ==
    [center |-> center,
     radius |-> IF Len(coveredPoints) = 1 THEN 0 ELSE radius,
     points |-> coveredPoints]
MakeCircle(center, radius, coveredPoints) ==
    [center |-> center, radius |-> radius, points |-> coveredPoints]

\* maxCovered = coveredPoints.length
NewMaxCoveredStale(len, best) == best
NewMaxCovered(len, best) == len

\* uncoveredPoints.indexOf(pt): the 0-based position of the first entry that
\* is the object pt, or -1
IndexOf(arr, pt) ==
    IF \E k \in 1..Len(arr) : arr[k] = pt
    THEN (CHOOSE k \in 1..Len(arr) :
            /\ arr[k] = pt
            /\ \A m \in 1..(k - 1) : arr[m] # pt) - 1
    ELSE -1

\* uncoveredPoints.splice(index, 1), index 0-based
SpliceOffByOne(arr, index) ==
    LET at == IF index >= 1 THEN index - 1 ELSE Len(arr) - 1
    IN  [k \in 1..(Len(arr) - 1) |-> IF k <= at THEN arr[k] ELSE arr[k + 1]]
Splice(arr, index) ==
    [k \in 1..(Len(arr) - 1) |-> IF k <= index THEN arr[k] ELSE arr[k + 1]]

\* if (index !== -1)
FoundPositive(index) == index > 0
Found(index) == index # -1

\* bestCircle.points.forEach(pt => { index = indexOf(pt); if (index !== -1) splice })
RECURSIVE RemoveCovered(_, _)
RemoveCovered(arr, pts) ==
    IF pts = <<>> THEN arr
    ELSE LET index == IndexOf(arr, Head(pts))
         IN  RemoveCovered(IF Found(index) THEN Splice(arr, index) ELSE arr,
                           Tail(pts))

\* circles.push(bestCircle)
PushFront(list, circle) == <<circle>> \o list
Push(list, circle) == Append(list, circle)

\* the contents of the working array
Uncovered == arrays[uncoveredPoints]

\* ---- the program ----

\* the warp script is not running
WarpIdle ==
    /\ version = "none"
    /\ argMap = <<>>
    /\ disk = <<>>
    /\ io = <<>>
    /\ primaryJSON = Null
    /\ translation = Null
    /\ jsonFiles = <<>>
    /\ xmlFiles = <<>>

\* the file has been read and parsed, the radius option accepted
Init ==
    /\ arrays = [arg |-> <<>>, copy |-> <<>>]
    /\ maxRadius \in 1..MaxRadiusBound
    /\ uncoveredPoints = NoRef
    /\ circles = <<>>
    /\ bestCircle = Null
    /\ maxCovered = 0
    /\ i = 0
    /\ pc = "extract"
    /\ run = 1
    /\ firstCover = <<>>
    /\ options = [input |-> GivenInput, radius |-> maxRadius,
                  type |-> GivenType, sid |-> GivenSid]
    /\ stdout = <<>>
    /\ other = IdleFrame
    /\ WarpIdle

\* the caller maps the next entry of Objects to a 2-D point; Objects has at
\* most `most` entries, with coordinate pairs among `pairs`
ExtractFrom(most, pairs) ==
    /\ pc = "extract"
    /\ Len(arrays[points]) < most
    /\ \E g \in pairs :
          arrays' = [arrays EXCEPT ![points] = Append(@, NewPoint(@, g))]
    /\ UNCHANGED <<maxRadius, uncoveredPoints, circles, bestCircle, maxCovered,
                   i, pc, run, firstCover,
                   options, stdout, other>>
    /\ UNCHANGED warpVars

ExtractUpTo(most) == ExtractFrom(most, Grid)

Extract == ExtractUpTo(MaxPoints)

\* function entry: uncoveredPoints = [...points]; circles = []
Call ==
    /\ pc \in {"extract", "call"}
    /\ uncoveredPoints' = NewArrayRef
    /\ arrays' = [arrays EXCEPT ![NewArrayRef] = arrays[points]]
    /\ circles' = <<>>
    /\ pc' = "while"
    /\ UNCHANGED <<maxRadius, bestCircle, maxCovered, i, run, firstCover,
                   options, stdout, other>>
    /\ UNCHANGED warpVars

\* the test of the outer loop; on exit, return circles
WhileTest ==
    /\ pc = "while"
    /\ IF WhileCond(Len(Uncovered))
       THEN /\ bestCircle' = Null
            /\ maxCovered' = MaxCoveredStart
            /\ i' = 0
            /\ pc' = "for"
       ELSE /\ pc' = "done"
            /\ UNCHANGED <<bestCircle, maxCovered, i>>
    /\ UNCHANGED <<arrays, maxRadius, uncoveredPoints, circles, run, firstCover,
                   options, stdout, other>>
    /\ UNCHANGED warpVars

\* one pass of the candidate loop: candidate i and its covered points
ForBody ==
    /\ pc = "for"
    /\ i < Len(Uncovered)
    /\ LET center == Uncovered[i + 1]
           coveredPoints == CoveredPoints(Uncovered, center, maxRadius)
       IN  IF IsBetter(Len(coveredPoints), maxCovered)
           THEN /\ maxCovered' = NewMaxCovered(Len(coveredPoints), maxCovered)
                /\ bestCircle' = MakeCircle(center, maxRadius, coveredPoints)
           ELSE UNCHANGED <<maxCovered, bestCircle>>
    /\ i' = i + 1
    /\ UNCHANGED <<arrays, maxRadius, uncoveredPoints, circles, pc, run, firstCover,
                   options, stdout, other>>
    /\ UNCHANGED warpVars

\* after the candidate loop: remove the covered points, push the circle.
\* bestCircle.points on a null bestCircle throws a TypeError.
RemoveAndPush ==
    /\ pc = "for"
    /\ ~(i < Len(Uncovered))
    /\ IF bestCircle = Null
       THEN /\ pc' = "error"
            /\ UNCHANGED <<arrays, circles>>
       ELSE /\ arrays' = [arrays EXCEPT ![uncoveredPoints] =
                              RemoveCovered(Uncovered, bestCircle.points)]
            /\ circles' = Push(circles, bestCircle)
            /\ pc' = "while"
    /\ UNCHANGED <<maxRadius, uncoveredPoints, bestCircle, maxCovered, i, run, firstCover,
                   options, stdout, other>>
    /\ UNCHANGED warpVars

\* the line printed for a circle: the insert statement's values
SqlLine(circle, zoneType, sid) ==
    [ztype |-> zoneType, zcoordsx |-> circle.center.x,
     zcoordsy |-> circle.center.y, zradius |-> circle.radius, sid |-> sid]

\* circles.forEach(circle => console.log(sql)), after the function returned
Emit ==
    /\ pc = "done"
    /\ stdout' = stdout \o [k \in 1..Len(circles) |->
                               SqlLine(circles[k], options.type, options.sid)]
    /\ pc' = "end"
    /\ UNCHANGED <<arrays, maxRadius, uncoveredPoints, circles, bestCircle,
                   maxCovered, i, run, firstCover, options, other>>
    /\ UNCHANGED warpVars

Next == Extract \/ Call \/ WhileTest \/ ForBody \/ RemoveAndPush \/ Emit

Spec == Init /\ [][Next]_vars

\* the computation is synchronous: once called it runs on, step after step,
\* until it returns or throws
Compute == Call \/ WhileTest \/ ForBody \/ RemoveAndPush

ExtractFew == ExtractUpTo(MaxFewPoints)

NextFair == ExtractFew \/ Compute \/ Emit

SpecFair == Init /\ [][NextFair]_vars /\ WF_vars(Compute)

\* ---- the script from its command line on ----

\* what --radius can parse to: not given, not a number, infinite, or a number
RadiusOptions == {Undefined, NaN, Infinity} \cup ((0 - 1)..MaxRadiusBound)

\* a pos entry that is no number (a string, or missing) makes the
\* coordinate's differences NaN
BadPairs == {<<NaN, 0>>}

\* !v
Falsy(v) == v = Undefined \/ v = 0 \/ v = NaN

\* isNaN(v)
IsNaN(v) == v = NaN \/ v = Undefined

\* a <= b on floating-point values
Leq(a, b) == a # NaN /\ b # NaN /\ a # Undefined /\ b # Undefined /\ a <= b

\* !options.radius || isNaN(options.radius) || options.radius <= 0
RadiusRejectedNoSign(radius) == Falsy(radius) \/ IsNaN(radius)
RadiusRejected(radius) == Falsy(radius) \/ IsNaN(radius) \/ Leq(radius, 0)

\* the command line has been parsed into options
InitCli ==
    /\ arrays = [arg |-> <<>>, copy |-> <<>>]
    /\ maxRadius = Undefined
    /\ uncoveredPoints = NoRef
    /\ circles = <<>>
    /\ bestCircle = Null
    /\ maxCovered = 0
    /\ i = 0
    /\ pc = "options"
    /\ run = 1
    /\ firstCover = <<>>
    /\ options \in [input : {Undefined, GivenInput}, radius : RadiusOptions,
                     type : {Undefined, GivenType}, sid : {Undefined, GivenSid}]
    /\ stdout = <<>>
    /\ other = IdleFrame
    /\ WarpIdle

\* the four option checks, each ending in process.exit(1), then the
\* assignments of maxRadius, zoneType and sid
CheckOptions ==
    /\ pc = "options"
    /\ IF \/ Falsy(options.input)
          \/ RadiusRejected(options.radius)
          \/ Falsy(options.type)
          \/ Falsy(options.sid)
       THEN pc' = "exit" /\ UNCHANGED maxRadius
       ELSE pc' = "read" /\ maxRadius' = options.radius
    /\ UNCHANGED <<arrays, uncoveredPoints, circles, bestCircle, maxCovered, i,
                   run, firstCover, options, stdout, other>>
    /\ UNCHANGED warpVars

\* fs.readFile and JSON.parse: a read error or a parse error ends in
\* process.exit(1); otherwise the entries of Objects are mapped
ReadFile ==
    /\ pc = "read"
    /\ \E outcome \in {"err", "parseErr", "ok"} :
          pc' = IF outcome = "ok" THEN "extract" ELSE "exit"
    /\ UNCHANGED <<arrays, maxRadius, uncoveredPoints, circles, bestCircle,
                   maxCovered, i, run, firstCover, options, stdout, other>>
    /\ UNCHANGED warpVars

ExtractAny == ExtractFrom(MaxFewPoints, Grid \cup BadPairs)

NextCli == CheckOptions \/ ReadFile \/ ExtractAny \/ Compute \/ Emit

SpecCli == InitCli /\ [][NextCli]_vars

\* ---- two computations side by side ----

\* the array passed to the second computation, and the array its spread
\* builds: each call builds its own
otherPoints == "arg2"
OtherArrayRefShared == NewArrayRef
OtherArrayRef == "copy2"

\* the coordinate pairs of the two inputs: the first row of the grid
PairGrid == { g \in Grid : g[2] = 0 }

\* the contents of the second computation's working array
OtherUncovered == arrays[other.uncoveredPoints]

\* two inputs are about to be built; each computation has its own radius
InitPair ==
    /\ arrays = [arg |-> <<>>, copy |-> <<>>, arg2 |-> <<>>, copy2 |-> <<>>]
    /\ maxRadius \in 1..MaxRadiusBound
    /\ uncoveredPoints = NoRef
    /\ circles = <<>>
    /\ bestCircle = Null
    /\ maxCovered = 0
    /\ i = 0
    /\ pc = "extract"
    /\ run = 1
    /\ firstCover = <<>>
    /\ options = [input |-> GivenInput, radius |-> maxRadius,
                  type |-> GivenType, sid |-> GivenSid]
    /\ stdout = <<>>
    /\ \E r \in 1..MaxRadiusBound :
          other = [IdleFrame EXCEPT !.points = otherPoints, !.maxRadius = r,
                                    !.pc = "extract"]
    /\ WarpIdle

ExtractPair == ExtractFrom(MaxFewPoints, PairGrid)

\* the next point of the second input
ExtractOther ==
    /\ other.pc = "extract"
    /\ Len(arrays[other.points]) < MaxOtherPoints
    /\ \E g \in PairGrid :
          arrays' = [arrays EXCEPT ![other.points] = Append(@, NewPoint(@, g))]
    /\ UNCHANGED <<maxRadius, uncoveredPoints, circles, bestCircle, maxCovered,
                   i, pc, run, firstCover, options, stdout, other>>
    /\ UNCHANGED warpVars

\* the second computation: function entry
OtherCall ==
    /\ other.pc = "extract"
    /\ other' = [other EXCEPT !.uncoveredPoints = OtherArrayRef,
                              !.circles = <<>>, !.pc = "while"]
    /\ arrays' = [arrays EXCEPT ![OtherArrayRef] = arrays[other.points]]
    /\ UNCHANGED <<maxRadius, uncoveredPoints, circles, bestCircle, maxCovered,
                   i, pc, run, firstCover, options, stdout>>
    /\ UNCHANGED warpVars

\* the second computation: the test of the outer loop
OtherWhileTest ==
    /\ other.pc = "while"
    /\ other' = IF WhileCond(Len(OtherUncovered))
                THEN [other EXCEPT !.bestCircle = Null,
                                   !.maxCovered = MaxCoveredStart,
                                   !.i = 0, !.pc = "for"]
                ELSE [other EXCEPT !.pc = "done"]
    /\ UNCHANGED <<arrays, maxRadius, uncoveredPoints, circles, bestCircle,
                   maxCovered, i, pc, run, firstCover, options, stdout>>
    /\ UNCHANGED warpVars

\* the second computation: one pass of the candidate loop
OtherForBody ==
    /\ other.pc = "for"
    /\ other.i < Len(OtherUncovered)
    /\ LET center == OtherUncovered[other.i + 1]
           coveredPoints == CoveredPoints(OtherUncovered, center, other.maxRadius)
       IN  other' =
             IF IsBetter(Len(coveredPoints), other.maxCovered)
             THEN [other EXCEPT
                     !.maxCovered = NewMaxCovered(Len(coveredPoints), @),
                     !.bestCircle = MakeCircle(center, other.maxRadius, coveredPoints),
                     !.i = @ + 1]
             ELSE [other EXCEPT !.i = @ + 1]
    /\ UNCHANGED <<arrays, maxRadius, uncoveredPoints, circles, bestCircle,
                   maxCovered, i, pc, run, firstCover, options, stdout>>
    /\ UNCHANGED warpVars

\* the second computation: removal and push
OtherRemoveAndPush ==
    /\ other.pc = "for"
    /\ ~(other.i < Len(OtherUncovered))
    /\ IF other.bestCircle = Null
       THEN /\ other' = [other EXCEPT !.pc = "error"]
            /\ UNCHANGED arrays
       ELSE /\ arrays' = [arrays EXCEPT ![other.uncoveredPoints] =
                              RemoveCovered(OtherUncovered, other.bestCircle.points)]
            /\ other' = [other EXCEPT !.circles = Push(@, other.bestCircle),
                                      !.pc = "while"]
    /\ UNCHANGED <<maxRadius, uncoveredPoints, circles, bestCircle, maxCovered,
                   i, pc, run, firstCover, options, stdout>>
    /\ UNCHANGED warpVars

OtherCompute == OtherCall \/ OtherWhileTest \/ OtherForBody \/ OtherRemoveAndPush

NextPair == ExtractPair \/ ExtractOther \/ Compute \/ OtherCompute

SpecPair == InitPair /\ [][NextPair]_vars

\* a second call on the same argument array, made once the first has returned
\* (the caller's `const circles = computeMinimumCircles(points, maxRadius)`)
CallAgain ==
    /\ pc = "done"
    /\ run = 1
    /\ firstCover' = circles
    /\ run' = 2
    /\ pc' = "call"
    /\ UNCHANGED <<arrays, maxRadius, uncoveredPoints, circles, bestCircle,
                   maxCovered, i, options, stdout, other>>
    /\ UNCHANGED warpVars

NextRepeat ==
    Extract \/ Call \/ WhileTest \/ ForBody \/ RemoveAndPush \/ Emit \/ CallAgain

SpecRepeat == Init /\ [][NextRepeat]_vars

\* ---- point extraction ----

\* the reference of the array jsonData.Objects
Objects == "Objects"

\* positions are [a, b, c] with a among the x values, c among the y values
\* of the grid and b, the height, in 0..MaxHeight
PosTriples == (0..MaxX) \X (0..MaxHeight) \X (0..MaxY)

\* const [x, z, y] = obj.pos; return { x, y, z }
PositionInOrder(obj) == [x |-> obj.pos[1], y |-> obj.pos[2], z |-> obj.pos[3]]
Position(obj) == [x |-> obj.pos[1], z |-> obj.pos[2], y |-> obj.pos[3]]

\* positions.map(pos => ({ x: pos.x, y: pos.y })): a new object per entry
PointOf(list, pos) == [id |-> Len(list) + 1, x |-> pos.x, y |-> pos.y]

\* the file has been parsed; the entries of Objects are about to be mapped
InitExtract ==
    /\ arrays = [arg |-> <<>>, copy |-> <<>>, Objects |-> <<>>]
    /\ maxRadius \in 1..MaxRadiusBound
    /\ uncoveredPoints = NoRef
    /\ circles = <<>>
    /\ bestCircle = Null
    /\ maxCovered = 0
    /\ i = 0
    /\ pc = "extract"
    /\ run = 1
    /\ firstCover = <<>>
    /\ options = [input |-> GivenInput, radius |-> maxRadius,
                  type |-> GivenType, sid |-> GivenSid]
    /\ stdout = <<>>
    /\ other = IdleFrame
    /\ WarpIdle

\* the two maps applied to the next entry of Objects
ExtractObject ==
    /\ pc = "extract"
    /\ Len(arrays[Objects]) < MaxFewPoints
    /\ \E pos \in PosTriples :
          LET obj == [pos |-> pos]
          IN  arrays' = [arrays EXCEPT
                            ![Objects] = Append(@, obj),
                            ![points] = Append(@, PointOf(@, Position(obj)))]
    /\ UNCHANGED <<maxRadius, uncoveredPoints, circles, bestCircle, maxCovered,
                   i, pc, run, firstCover, options, stdout, other>>
    /\ UNCHANGED warpVars

NextExtract == ExtractObject \/ Compute \/ Emit

SpecExtract == InitExtract /\ [][NextExtract]_vars

\* ---- the warp script (dzwarp) ----
\*
\* Three programs share one design: the flag version (part_001), the version
\* with an output directory and offsets (dzwarp.js, first program) and the
\* module-aware version (dzwarp.js, second program).  `version` tells which
\* one runs.  `argMap` is the map the argument loop builds, `disk` the files
\* the run has touched (a file's content is fixed when it is first read),
\* `io` the file operations and error exits of the run in order,
\* `primaryJSON` and `translation` the locals of main, `jsonFiles` and
\* `xmlFiles` the entries of the relation directory still to be processed.

FlagVersion == "part_001"
OffsetVersion == "dzwarp"
ModuleVersion == "dzwarp-mod"
Versions == {FlagVersion, OffsetVersion, ModuleVersion}

\* an absolute path: directory, base name (the stem followed by the suffixes
\* appended to it) and extension
Path(dir, stem, ext) == [dir |-> dir, base |-> <<stem>>, ext |-> ext]
Dir(dir) == [dir |-> dir, base |-> <<>>, ext |-> ""]

\* a flag that is not on the command line: no path, no directory, no module
NoPath == [dir |-> "", base |-> <<>>, ext |-> ""]
NoDir == ""
NoModule == ""

\* path.extname(file).toLowerCase()
ToLowerCase(ext) ==
    IF ext = ".JSON" THEN ".json" ELSE IF ext = ".XML" THEN ".xml" ELSE ext

\* path.join(outputDir, `${base}-warp${ext}`)
GetOutputPath(inputPath, outputDir) ==
    [dir |-> outputDir, base |-> Append(inputPath.base, "-warp"),
     ext |-> inputPath.ext]

\* an object of a set, with a pos array of three numbers or without pos
Obj(p) == [name |-> "o", pos |-> p]
Bare == [name |-> "o"]

\* Array.isArray(obj.pos) && obj.pos.length >= 3
HasValidPos(obj) == "pos" \in DOMAIN obj /\ Len(obj.pos) >= 3

\* what a read finds: no readable file, text that does not parse, or text
\* that parses to a value
Unreadable == [kind |-> "unreadable"]
Malformed == [kind |-> "malformed"]
Text(value) == [kind |-> "text", value |-> value]

\* JSON values: without an Objects array, or a set of objects
Plain == [note |-> "n"]
Set(objects) == [Objects |-> objects]

\* Array.isArray(json.Objects)
HasObjects(json) == "Objects" \in DOMAIN json

\* the attribute values of an XML file are numerals: parseFloat reads one,
\* toFixed(4) writes one
Numeral(n) == [digits |-> n]
ParseFloat(numeral) == numeral.digits
ToFixed(n) == Numeral(n)

\* XML values: without eventposdef, or a list of events, each with a name
\* that starts with VehicleTrd or not and with pos elements
NoEvents == [note |-> "n"]
Events(events) == [eventposdef |-> [event |-> events]]
Event(vehicleTrd, pos) == [vehicleTrd |-> vehicleTrd, pos |-> pos]
XmlPos(p) == [x |-> Numeral(p[1]), y |-> Numeral(p[2]), z |-> Numeral(p[3])]

\* ---- the bounded world of the warp script ----

\* positions have small non-negative coordinates
Positions ==
    { p \in (0..MaxCoord) \X (0..MaxCoord) \X (0..MaxCoord) :
        p[1] + p[2] + p[3] <= MaxCoord }

\* the warp coordinates, and the reference positions of the warp set
Targets == { <<t, t + 1, 0>> : t \in 0..MaxCoord }

\* what the primary set may hold
PrimaryContents ==
    {Unreadable, Malformed, Text(Plain), Text(Set(<<>>)), Text(Set(<<Bare>>))}
      \cup { Text(Set(<<Obj(p)>>)) : p \in Positions }
      \cup { Text(Set(<<Obj(<<0, 0, 0>>), o>>)) :
               o \in {Bare, Obj(<<MaxCoord, 0, MaxCoord>>)} }

\* what the warp set may hold
WarpContents ==
    {Unreadable, Malformed, Text(Plain), Text(Set(<<>>)), Text(Set(<<Bare>>))}
      \cup { Text(Set(<<Obj(p)>>)) : p \in Targets }

\* what the related sets b.json and c.JSON may hold
RelatedContents ==
    {Unreadable, Malformed, Text(Plain),
     Text(Set(<<Obj(<<0, MaxCoord, 0>>), Bare>>))}
FewContents == {Text(Plain), Text(Set(<<Obj(<<MaxCoord, 0, 0>>)>>))}

\* what the XML file e.xml may hold
XmlContents ==
    {Malformed, Text(NoEvents),
     Text(Events(<<Event(FALSE, <<XmlPos(<<0, 0, 0>>)>>)>>)),
     Text(Events(<<Event(TRUE, <<XmlPos(<<0, 0, MaxCoord>>)>>)>>))}

\* the sets of the directory `one` hold one object each
OneContents == {Text(Set(<<Obj(<<0, 0, 0>>)>>))}

\* what a first read of a path may find
ContentsAt(path) ==
    IF path.base = <<"e">> THEN XmlContents
    ELSE IF path.dir = "one" THEN OneContents
    ELSE IF path = argMap.inputSetPath THEN PrimaryContents
    ELSE IF path = argMap.warpSetPath THEN WarpContents
    ELSE IF path.base = <<"b">> THEN RelatedContents
    ELSE IF path.base = <<"c">> THEN FewContents
    ELSE {Unreadable}

\* the entries of a directory before the run
World(dir) ==
    IF dir = "sets"
    THEN {Path("sets", "b", ".json"), Path("sets", "c", ".JSON"),
          Path("sets", "e", ".xml"), Path("sets", "n", ".txt")}
    ELSE IF dir = "one"
    THEN {Path("one", "q", ".json"), Path("one", "e", ".xml")}
    ELSE {}

\* fs.readdir fails on a directory that does not exist
Readable(dir) == dir # "missing"

\* the outcomes of fs.mkdir and fs.writeFile
Outcomes == {"ok", "err"}

\* ---- file operations ----

\* the content a read of path finds, and the disk after the read
Peek(path) == IF path \in DOMAIN disk THEN {disk[path]} ELSE ContentsAt(path)
Touch(path, found) ==
    [q \in DOMAIN disk \cup {path} |-> IF q = path THEN found ELSE disk[q]]

\* the disk after fs.writeFile(path, JSON.stringify(value))
Write(files, path, value) ==
    [q \in DOMAIN files \cup {path} |->
        IF q = path THEN Text(value) ELSE files[q]]

\* the entries fs.readdir returns: those of before the run and the files the
\* run has read or written there
Listing(dir) ==
    World(dir) \cup { p \in DOMAIN disk : p.dir = dir /\ disk[p].kind = "text" }

\* the entries of the log: the operations that succeeded, with the source of
\* what a write wrote, and at the end of a failed run the error exit
Op(op, path, from, why) == [op |-> op, path |-> path, from |-> from, why |-> why]
ReadOp(path) == Op("read", path, NoPath, "")
WriteOp(path, from) == Op("write", path, from, "")
MkdirOp(dir) == Op("mkdir", Dir(dir), NoPath, "")
ReaddirOp(dir) == Op("readdir", Dir(dir), NoPath, "")
\* console.error(...) followed by process.exit(1): path is the file or
\* directory the error is about (NoPath: the command line) and why the
\* step that failed
ErrorExit(path, why) == Op("error", path, NoPath, why)

\* readJSON failed, or a check on what it returned did
ReadFailure(found) == IF found.kind # "text" THEN "read" ELSE "check"

\* ---- parseArguments ----

\* an argument the switch of this version does not know, or --help
UnknownArgument(ver, a) ==
    \/ a.unknown
    \/ /\ ver = FlagVersion
       /\ \/ a.outputDir # NoDir
          \/ a.offsetX # Undefined \/ a.offsetY # Undefined
          \/ a.offsetZ # Undefined
    \/ ver # ModuleVersion /\ a.module # NoModule

\* ('warpX' in argMap) || ('warpY' in argMap) || ('warpZ' in argMap)
AnyCoordinate(a) ==
    a.warpX # Undefined \/ a.warpY # Undefined \/ a.warpZ # Undefined

\* ('warpX' in argMap) && ('warpY' in argMap) && ('warpZ' in argMap)
AllCoordinates(a) ==
    a.warpX # Undefined /\ a.warpY # Undefined /\ a.warpZ # Undefined

\* 'warpSetPath' in argMap
HasWarpSet(a) == a.warpSetPath # NoPath

\* isNaN(argMap.warpX) || isNaN(argMap.warpY) || isNaN(argMap.warpZ)
CoordinateIsNaN(a) == IsNaN(a.warpX) \/ IsNaN(a.warpY) \/ IsNaN(a.warpZ)

\* 'offsetX' in argMap && isNaN(argMap.offsetX), and so on
OffsetIsNaN(a) ==
    \/ a.offsetX # Undefined /\ IsNaN(a.offsetX)
    \/ a.offsetY # Undefined /\ IsNaN(a.offsetY)
    \/ a.offsetZ # Undefined /\ IsNaN(a.offsetZ)

\* the checks after the loop, each ending in an exit
RejectedOnlyInput(ver, a) == a.inputSetPath = NoPath
Rejected(ver, a) ==
    IF ver = ModuleVersion
    THEN \/ a.inputSetPath = NoPath
         \/ ~AllCoordinates(a) /\ ~HasWarpSet(a)
         \/ AllCoordinates(a) /\ CoordinateIsNaN(a)
         \/ OffsetIsNaN(a)
    ELSE \/ AnyCoordinate(a) /\ HasWarpSet(a)
         \/ a.inputSetPath = NoPath
         \/ ~AnyCoordinate(a) /\ ~HasWarpSet(a)
         \/ AnyCoordinate(a) /\ (~AllCoordinates(a) \/ CoordinateIsNaN(a))
         \/ ver = OffsetVersion /\ OffsetIsNaN(a)

\* the order of the steps of main: the module-aware version creates the
\* output directory first, the offset version before it warps
AfterStepLateMkdir(step, ver, a) ==
    LET last == IF a.inputSetRelationDir # NoDir THEN "readdir" ELSE "done"
    IN  CASE step = "parse" ->
               IF ver = ModuleVersion /\ a.outputDir # NoDir
               THEN "mkdir" ELSE "primary"
          [] step = "mkdir" ->
               IF ver = ModuleVersion THEN "primary" ELSE last
          [] step = "primary" -> "vector"
          [] step = "vector" -> "warp"
          [] step = "warp" ->
               IF ver = OffsetVersion /\ a.outputDir # NoDir
               THEN "mkdir" ELSE last
AfterStep(step, ver, a) ==
    CASE step = "parse" ->
           IF ver = ModuleVersion /\ a.outputDir # NoDir
           THEN "mkdir" ELSE "primary"
      [] step = "mkdir" -> IF ver = ModuleVersion THEN "primary" ELSE "warp"
      [] step = "primary" -> "vector"
      [] step = "vector" ->
           IF ver = OffsetVersion /\ a.outputDir # NoDir
           THEN "mkdir" ELSE "warp"
      [] step = "warp" ->
           IF a.inputSetRelationDir # NoDir THEN "readdir" ELSE "done"

\* parseArguments: the loop has built argMap; the checks exit or return it
ParseArguments ==
    /\ pc = "parse"
    /\ IF UnknownArgument(version, argMap) \/ Rejected(version, argMap)
       THEN /\ pc' = "exit"
            /\ io' = Append(io, ErrorExit(NoPath, "args"))
            /\ UNCHANGED argMap
       ELSE /\ argMap' = IF version = ModuleVersion /\ argMap.module = NoModule
                         THEN [argMap EXCEPT !.module = "json"]
                         ELSE argMap
            /\ pc' = AfterStep("parse", version, argMap)
            /\ UNCHANGED io
    /\ UNCHANGED <<version, disk, primaryJSON, translation, jsonFiles, xmlFiles>>
    /\ UNCHANGED zoneVars

\* ---- main ----

\* the directory the outputs of this version go to: beside the input in the
\* flag version, else the -o directory or the directory of the primary set
OutputDirFor(path) ==
    IF version = FlagVersion THEN path.dir
    ELSE IF argMap.outputDir # NoDir THEN argMap.outputDir
    ELSE argMap.inputSetPath.dir

\* ensureOutputDirectory: fs.mkdir(outputDir, { recursive: true })
EnsureOutputDirectory ==
    /\ pc = "mkdir"
    /\ \E outcome \in Outcomes :
          IF outcome = "ok"
          THEN /\ io' = Append(io, MkdirOp(argMap.outputDir))
               /\ pc' = AfterStep("mkdir", version, argMap)
          ELSE /\ io' = Append(io, ErrorExit(Dir(argMap.outputDir), "mkdir"))
               /\ pc' = "exit"
    /\ UNCHANGED <<version, argMap, disk, primaryJSON, translation, jsonFiles,
                   xmlFiles>>
    /\ UNCHANGED zoneVars

\* the checks of main on what the read of the primary set found; the
\* module-aware version does not look at the reference object here
PrimaryRejected(ver, found) ==
    \/ found.kind # "text"
    \/ ~HasObjects(found.value)
    \/ Len(found.value.Objects) = 0
    \/ ver # ModuleVersion /\ ~HasValidPos(found.value.Objects[1])

\* readJSON(absoluteInputSetPath) and the checks that follow it
ReadPrimary ==
    /\ pc = "primary"
    /\ LET path == argMap.inputSetPath
       IN  \E found \in Peek(path) :
              /\ disk' = Touch(path, found)
              /\ IF PrimaryRejected(version, found)
                 THEN /\ io' = io \o <<ReadOp(path),
                                            ErrorExit(path, ReadFailure(found))>>
                      /\ pc' = "exit"
                      /\ UNCHANGED primaryJSON
                 ELSE /\ io' = Append(io, ReadOp(path))
                      /\ primaryJSON' = found.value
                      /\ pc' = AfterStep("primary", version, argMap)
    /\ UNCHANGED <<version, argMap, translation, jsonFiles, xmlFiles>>
    /\ UNCHANGED zoneVars

\* the checks on what the read of the warp set found
WarpSetRejected(found) ==
    \/ found.kind # "text"
    \/ ~HasObjects(found.value)
    \/ Len(found.value.Objects) = 0
    \/ ~HasValidPos(found.value.Objects[1])

\* deltaX = target[0] - primaryReferencePos[0], and so on
Delta(target, from) ==
    [deltaX |-> target[1] - from[1], deltaY |-> target[2] - from[2],
     deltaZ |-> target[3] - from[3]]

\* offsetX: args.offsetX || 0, and so on
OrZero(v) == IF Falsy(v) THEN 0 ELSE v
Offsets(a) ==
    [offsetX |-> OrZero(a.offsetX), offsetY |-> OrZero(a.offsetY),
     offsetZ |-> OrZero(a.offsetZ)]

\* applyOffsets (the flag version has no offsets: they are all 0 there)
ApplyOffsetsNone(delta, offsets) ==
    [newDeltaX |-> delta.deltaX, newDeltaY |-> delta.deltaY,
     newDeltaZ |-> delta.deltaZ]
ApplyOffsets(delta, offsets) ==
    [newDeltaX |-> delta.deltaX + offsets.offsetX,
     newDeltaY |-> delta.deltaY + offsets.offsetY,
     newDeltaZ |-> delta.deltaZ + offsets.offsetZ]

\* calculateTranslationVector and applyOffsets.  With -iw the warp set is
\* read and checked (the module-aware version also checks the reference
\* object of the primary set there); without it the warp coordinates are
\* used, and reading pos[0] of an object without pos throws a TypeError.
CalculateTranslationVector ==
    /\ pc = "vector"
    /\ LET ref == primaryJSON.Objects[1]
           path == argMap.warpSetPath
       IN  IF path # NoPath
           THEN \E found \in Peek(path) :
                   /\ disk' = Touch(path, found)
                   /\ IF WarpSetRejected(found)
                      THEN /\ io' = io \o <<ReadOp(path),
                                            ErrorExit(path, ReadFailure(found))>>
                           /\ pc' = "exit"
                           /\ UNCHANGED translation
                      ELSE IF ~HasValidPos(ref)
                      THEN /\ io' = io \o <<ReadOp(path),
                                            ErrorExit(argMap.inputSetPath, "check")>>
                           /\ pc' = "exit"
                           /\ UNCHANGED translation
                      ELSE /\ io' = Append(io, ReadOp(path))
                           /\ translation' =
                                ApplyOffsets(
                                    Delta(found.value.Objects[1].pos, ref.pos),
                                    Offsets(argMap))
                           /\ pc' = AfterStep("vector", version, argMap)
           ELSE /\ UNCHANGED <<disk, io>>
                /\ IF ~HasValidPos(ref)
                   THEN pc' = "crash" /\ UNCHANGED translation
                   ELSE /\ translation' =
                             ApplyOffsets(
                                 Delta(<<argMap.warpX, argMap.warpY,
                                         argMap.warpZ>>, ref.pos),
                                 Offsets(argMap))
                        /\ pc' = AfterStep("vector", version, argMap)
    /\ UNCHANGED <<version, argMap, primaryJSON, jsonFiles, xmlFiles>>
    /\ UNCHANGED zoneVars

\* warpObjects: every object with a valid pos array is moved by the vector
WarpObjectsFirstOnly(objects, t) ==
    [k \in 1..Len(objects) |->
        IF HasValidPos(objects[k]) /\ k = 1
        THEN [objects[k] EXCEPT !.pos = <<@[1] + t.newDeltaX,
                                          @[2] + t.newDeltaY,
                                          @[3] + t.newDeltaZ>>]
        ELSE objects[k]]
WarpObjects(objects, t) ==
    [k \in 1..Len(objects) |->
        IF HasValidPos(objects[k])
        THEN [objects[k] EXCEPT !.pos = <<@[1] + t.newDeltaX,
                                          @[2] + t.newDeltaY,
                                          @[3] + t.newDeltaZ>>]
        ELSE objects[k]]

\* the primary set is warped in place and written next
WarpPrimary ==
    /\ pc = "warp"
    /\ LET path == argMap.inputSetPath
           warped == [primaryJSON EXCEPT
                         !.Objects = WarpObjects(@, translation)]
           primaryOutputPath == GetOutputPath(path, OutputDirFor(path))
       IN  /\ primaryJSON' = warped
           /\ \E outcome \in Outcomes :
                 IF outcome = "ok"
                 THEN /\ disk' = Write(disk, primaryOutputPath, warped)
                      /\ io' = Append(io, WriteOp(primaryOutputPath, path))
                      /\ pc' = AfterStep("warp", version, argMap)
                 ELSE /\ io' = Append(io, ErrorExit(primaryOutputPath, "write"))
                      /\ pc' = "exit"
                      /\ UNCHANGED disk
    /\ UNCHANGED <<version, argMap, translation, jsonFiles, xmlFiles>>
    /\ UNCHANGED zoneVars

\* where the loops over the entries of the directory stand
LoopPc(json, xml) ==
    IF json # {} THEN "json" ELSE IF xml # {} THEN "xml" ELSE "done"

\* fs.readdir(absoluteRelationDir) and the two filters; only the
\* module-aware version looks for XML files
ReadDir ==
    /\ pc = "readdir"
    /\ LET dir == argMap.inputSetRelationDir
           files == Listing(dir)
           json == { f \in files : ToLowerCase(f.ext) = ".json" }
           xml == IF version = ModuleVersion
                  THEN { f \in files : ToLowerCase(f.ext) = ".xml" }
                  ELSE {}
       IN  IF Readable(dir)
           THEN /\ io' = Append(io, ReaddirOp(dir))
                /\ jsonFiles' = json
                /\ xmlFiles' = xml
                /\ pc' = LoopPc(json, xml)
           ELSE /\ io' = Append(io, ErrorExit(Dir(dir), "readdir"))
                /\ pc' = "exit"
                /\ UNCHANGED <<jsonFiles, xmlFiles>>
    /\ UNCHANGED <<version, argMap, disk, primaryJSON, translation>>
    /\ UNCHANGED zoneVars

\* the entries the loop skips: the primary set and the warp set
Skipped(file, a) ==
    \/ file = a.inputSetPath
    \/ a.warpSetPath # NoPath /\ file = a.warpSetPath

\* one pass of the loop over jsonFiles, in the order readdir gave
ProcessFile ==
    /\ pc = "json"
    /\ \E file \in jsonFiles :
          LET rest == jsonFiles \ {file}
              outputPath == GetOutputPath(file, OutputDirFor(file))
          IN  /\ jsonFiles' = rest
              /\ IF Skipped(file, argMap)
                 THEN /\ pc' = LoopPc(rest, xmlFiles)
                      /\ UNCHANGED <<disk, io>>
                 ELSE \E found \in Peek(file), outcome \in Outcomes :
                         IF found.kind # "text"
                         THEN /\ outcome = "ok"
                              /\ disk' = Touch(file, found)
                              /\ io' = io \o <<ReadOp(file), ErrorExit(file, "read")>>
                              /\ pc' = "exit"
                         ELSE IF ~HasObjects(found.value)
                         THEN /\ outcome = "ok"
                              /\ disk' = Touch(file, found)
                              /\ io' = Append(io, ReadOp(file))
                              /\ pc' = LoopPc(rest, xmlFiles)
                         ELSE IF outcome = "ok"
                         THEN /\ disk' = Write(Touch(file, found), outputPath,
                                    [found.value EXCEPT !.Objects =
                                        WarpObjects(@, translation)])
                              /\ io' = io \o <<ReadOp(file),
                                               WriteOp(outputPath, file)>>
                              /\ pc' = LoopPc(rest, xmlFiles)
                         ELSE /\ disk' = Touch(file, found)
                              /\ io' = io \o <<ReadOp(file),
                                               ErrorExit(outputPath, "write")>>
                              /\ pc' = "exit"
    /\ UNCHANGED <<version, argMap, primaryJSON, translation, xmlFiles>>
    /\ UNCHANGED zoneVars

\* processXMLFile: the pos elements of the events whose name starts with
\* VehicleTrd are moved by the vector and written with four decimals
WarpEvents(events, t) ==
    [k \in 1..Len(events) |->
        IF events[k].vehicleTrd
        THEN [events[k] EXCEPT !.pos =
                 [m \in 1..Len(@) |->
                     [x |-> ToFixed(ParseFloat(@[m].x) + t.newDeltaX),
                      y |-> ToFixed(ParseFloat(@[m].y) + t.newDeltaY),
                      z |-> ToFixed(ParseFloat(@[m].z) + t.newDeltaZ)]]]
        ELSE events[k]]

\* the checks of processXMLFile that end in a warning and no output
XmlSkipped(xml) ==
    \/ "eventposdef" \notin DOMAIN xml
    \/ \A k \in 1..Len(xml.eventposdef.event) :
          ~xml.eventposdef.event[k].vehicleTrd

\* one pass of the loop over xmlFiles (module-aware version)
ProcessXml ==
    /\ pc = "xml"
    /\ \E file \in xmlFiles :
          LET rest == xmlFiles \ {file}
              outputPath == GetOutputPath(file, OutputDirFor(file))
          IN  /\ xmlFiles' = rest
              /\ \E found \in Peek(file), outcome \in Outcomes :
                    IF found.kind # "text"
                    THEN /\ outcome = "ok"
                         /\ disk' = Touch(file, found)
                         /\ io' = io \o <<ReadOp(file), ErrorExit(file, "read")>>
                         /\ pc' = "exit"
                    ELSE IF argMap.module # "events" \/ XmlSkipped(found.value)
                    THEN /\ outcome = "ok"
                         /\ disk' = Touch(file, found)
                         /\ io' = Append(io, ReadOp(file))
                         /\ pc' = LoopPc({}, rest)
                    ELSE IF outcome = "ok"
                    THEN /\ disk' = Write(Touch(file, found), outputPath,
                               Events(WarpEvents(
                                   found.value.eventposdef.event, translation)))
                         /\ io' = io \o <<ReadOp(file),
                                          WriteOp(outputPath, file)>>
                         /\ pc' = LoopPc({}, rest)
                    ELSE /\ disk' = Touch(file, found)
                         /\ io' = io \o <<ReadOp(file),
                                          ErrorExit(outputPath, "write")>>
                         /\ pc' = "exit"
    /\ UNCHANGED <<version, argMap, primaryJSON, translation, jsonFiles>>
    /\ UNCHANGED zoneVars

NextWarp ==
    \/ ParseArguments
    \/ EnsureOutputDirectory
    \/ ReadPrimary
    \/ CalculateTranslationVector
    \/ WarpPrimary
    \/ ReadDir
    \/ ProcessFile
    \/ ProcessXml

\* the circle-cover script is not running
ZoneIdle ==
    /\ arrays = [arg |-> <<>>, copy |-> <<>>]
    /\ maxRadius = Undefined
    /\ uncoveredPoints = NoRef
    /\ circles = <<>>
    /\ bestCircle = Null
    /\ maxCovered = 0
    /\ i = 0
    /\ run = 1
    /\ firstCover = <<>>
    /\ options = <<>>
    /\ stdout = <<>>
    /\ other = IdleFrame

\* the offsets of a command line: none, or -xo and -zo
OffsetChoices ==
    {<<Undefined, Undefined, Undefined>>}
      \cup { <<o, Undefined, 0 - o>> : o \in 1..MaxCoord }

\* command lines that name the primary set, inside the relation directory
\* or outside it, and give warp coordinates, a warp set, or both
WarpArguments ==
    { [inputSetPath |-> Path(d, "a", ".json"),
       inputSetRelationDir |-> r,
       warpX |-> t[1], warpY |-> t[2], warpZ |-> t[3],
       warpSetPath |-> w,
       outputDir |-> o,
       offsetX |-> f[1], offsetY |-> f[2], offsetZ |-> f[3],
       module |-> m,
       unknown |-> FALSE] :
        d \in {"sets", "in"},
        r \in {NoDir, "sets", "missing"},
        t \in Targets \cup {<<Undefined, Undefined, Undefined>>},
        w \in {NoPath, Path("sets", "w", ".json")},
        o \in {NoDir, "out"},
        f \in OffsetChoices,
        m \in {NoModule, "events"} }

InitWarp ==
    /\ version \in Versions
    /\ argMap \in WarpArguments
    /\ disk = <<>>
    /\ io = <<>>
    /\ primaryJSON = Null
    /\ translation = Null
    /\ jsonFiles = {}
    /\ xmlFiles = {}
    /\ pc = "parse"
    /\ ZoneIdle

SpecWarp == InitWarp /\ [][NextWarp]_vars

\* command lines with any of the flags present or missing, numeric values
\* that are numbers or not, and files of the directory `one`
AnyArguments ==
    [inputSetPath : {NoPath, Path("one", "p", ".json")},
     inputSetRelationDir : {NoDir, "one"},
     warpX : {Undefined, NaN, MaxCoord},
     warpY : {Undefined, NaN, MaxCoord},
     warpZ : {Undefined, NaN, MaxCoord},
     warpSetPath : {NoPath, Path("one", "w", ".json")},
     outputDir : {NoDir, "out"},
     offsetX : {Undefined, NaN, MaxCoord},
     offsetY : {Undefined},
     offsetZ : {Undefined},
     module : {NoModule},
     unknown : BOOLEAN]

InitArgs ==
    /\ version \in Versions
    /\ argMap \in AnyArguments
    /\ disk = <<>>
    /\ io = <<>>
    /\ primaryJSON = Null
    /\ translation = Null
    /\ jsonFiles = {}
    /\ xmlFiles = {}
    /\ pc = "parse"
    /\ ZoneIdle

SpecArgs == InitArgs /\ [][NextWarp]_vars

\* ---- vocabulary of the properties ----

\* the caller's list
Input == arrays[points]

\* squared Euclidean distance
Dist2(p, c) == (p.x - c.x) * (p.x - c.x) + (p.y - c.y) * (p.y - c.y)

\* p lies in the closed disk of the configured radius around c
InDisk(p, c) == Dist2(p, c) <= maxRadius * maxRadius

\* how many entries of the list u lie in the disk around c (every
\* occurrence counted)
Count(u, c) == Cardinality({ k \in 1..Len(u) : InDisk(u[k], c) })

\* the candidate loop is over and bestCircle is about to be used
ScanDone == pc = "for" /\ i = Len(Uncovered)

\* this step removes the covered points and pushes the circle
PushStep == pc = "for" /\ pc' = "while"

\* the circle pushed by this step
Pushed == circles'[Len(circles')]

\* the position in u of the first candidate of maximal count
FirstBest(u) ==
    CHOOSE k \in 1..Len(u) :
        /\ \A m \in 1..Len(u) : Count(u, u[m]) <= Count(u, u[k])
        /\ \A m \in 1..(k - 1) : Count(u, u[m]) < Count(u, u[k])

\* ---- properties ----

\* C1 Full coverage: when the function returns, every entry of the input
\* list is within the radius (inclusive) of the center of some returned circle.
FullCoverage ==
    pc = "done" =>
        \A k \in 1..Len(Input) :
            \E c \in 1..Len(circles) : InDisk(Input[k], circles[c].center)

\* a return with several circles, one of which covers a point at distance
\* exactly the radius from its center
FullCoverageWitness ==
    /\ pc = "done"
    /\ Len(Input) = MaxPoints
    /\ Len(circles) >= 2
    /\ \E c \in 1..Len(circles) : \E k \in 1..Len(Input) :
           Dist2(Input[k], circles[c].center) = maxRadius * maxRadius

\* C2 Center validity: the center of every circle, chosen or pushed, has the
\* coordinates of some entry of the input list.
CenterValidity ==
    /\ \A c \in 1..Len(circles) :
          \E k \in 1..Len(Input) :
              Input[k].x = circles[c].center.x /\ Input[k].y = circles[c].center.y
    /\ bestCircle # Null =>
          \E k \in 1..Len(Input) :
              Input[k].x = bestCircle.center.x /\ Input[k].y = bestCircle.center.y

\* a returned circle whose center would not be an input point with its
\* coordinates exchanged
CenterValidityWitness ==
    /\ pc = "done"
    /\ \E c \in 1..Len(circles) :
          \A k \in 1..Len(Input) :
              ~(Input[k].x = circles[c].center.y /\ Input[k].y = circles[c].center.x)

\* C3 Fixed radius: at every step every circle, chosen or pushed, has the
\* radius argument as its radius.
FixedRadius ==
    /\ \A c \in 1..Len(circles) : circles[c].radius = maxRadius
    /\ bestCircle # Null => bestCircle.radius = maxRadius

\* a returned circle that covers its center only, where a smaller radius
\* would do
FixedRadiusWitness ==
    /\ pc = "done"
    /\ \E c \in 1..Len(circles) :
          Len(circles[c].points) = 1 /\ circles[c].radius = maxRadius

\* C4 Boundedness: there are never more circles than input points; a return
\* for a non-empty input has at least one circle; the empty input returns the
\* empty cover and raises no error.
Boundedness ==
    /\ Len(circles) <= Len(Input)
    /\ (pc = "done" /\ Len(Input) >= 1) => Len(circles) >= 1
    /\ Len(Input) = 0 => pc # "error"

\* the empty input has returned
BoundednessWitness ==
    pc = "done" /\ Len(Input) = 0 /\ circles = <<>>

\* C5 Tie-break: the circle pushed by a step is centered on the first
\* entry, in the current order of the uncovered list, among those of
\* maximal count; that order is the input order of the entries still there.
TieBreak ==
    [][PushStep =>
         /\ Pushed.center = Uncovered[FirstBest(Uncovered)]
         /\ \A a, b \in 1..Len(Uncovered) :
               a < b => Uncovered[a].id < Uncovered[b].id]_vars

\* a scan has ended on a tie between two candidates of maximal count, the
\* earlier of which has the larger coordinates
TieBreakWitness ==
    /\ ScanDone
    /\ bestCircle # Null
    /\ \E a, b \in 1..Len(Uncovered) :
          /\ a < b
          /\ a = FirstBest(Uncovered)
          /\ Count(Uncovered, Uncovered[b]) = Count(Uncovered, Uncovered[a])
          /\ Uncovered[a].x > Uncovered[b].x
          /\ Uncovered[a].y > Uncovered[b].y
          /\ bestCircle.center = Uncovered[a]

\* C6 Greedy maximum: the circle pushed by a step is centered on a candidate
\* whose count of uncovered entries in its disk is at least the count of
\* every candidate.
GreedyMaximum ==
    [][PushStep =>
         \A k \in 1..Len(Uncovered) :
             Count(Uncovered, Uncovered[k]) <= Count(Uncovered, Pushed.center)]_vars

\* a scan has ended on a candidate that is neither the first nor the last
\* and covers strictly more than both
GreedyMaximumWitness ==
    /\ ScanDone
    /\ bestCircle # Null
    /\ Len(Uncovered) >= 3
    /\ bestCircle.center # Uncovered[1]
    /\ bestCircle.center # Uncovered[Len(Uncovered)]
    /\ Count(Uncovered, Uncovered[1]) < Len(bestCircle.points)
    /\ Count(Uncovered, Uncovered[Len(Uncovered)]) < Len(bestCircle.points)

\* C7 Candidate restriction: a chosen center is an entry of the uncovered
\* list, and no pushed circle is centered in the disk of an earlier one.
CandidateRestriction ==
    /\ (pc = "for" /\ bestCircle # Null) =>
          \E k \in 1..Len(Uncovered) : Uncovered[k] = bestCircle.center
    /\ \A a, b \in 1..Len(circles) :
          a < b => ~InDisk(circles[b].center, circles[a].center)

\* a later circle has been pushed while an earlier circle covered a point
\* at distance exactly the radius
CandidateRestrictionWitness ==
    /\ Len(circles) >= 2
    /\ \E k \in 1..Len(circles[1].points) :
          Dist2(circles[1].points[k], circles[1].center) = maxRadius * maxRadius

\* C8 Removal step: the step that pushes a circle leaves in the uncovered
\* list exactly the entries outside the closed disk of the pushed center, in
\* their previous order.
RemovalStep ==
    [][PushStep =>
         arrays'[uncoveredPoints] =
             SelectSeq(Uncovered, LAMBDA p : ~InDisk(p, Pushed.center))]_vars

\* after the first removal: a point at distance exactly the radius went
\* and an entry stays
RemovalStepWitness ==
    /\ pc = "while"
    /\ Len(circles) = 1
    /\ \E k \in 1..Len(circles[1].points) :
          Dist2(circles[1].points[k], circles[1].center) = maxRadius * maxRadius
    /\ Len(Uncovered) >= 1

\* C9 Determinism: a second call on the same list and radius returns the
\* circle sequence the first call returned.
Determinism ==
    (run = 2 /\ pc = "done") => circles = firstCover

\* the second call has returned a cover of several circles
DeterminismWitness ==
    run = 2 /\ pc = "done" /\ Len(circles) >= 2 /\ Len(firstCover) >= 2

\* C10 No failure: no step raises the TypeError, and whenever the candidate
\* loop ends bestCircle is not null.
NoFailure ==
    /\ pc # "error"
    /\ ScanDone => bestCircle # Null

\* a scan has ended on a candidate that covers nothing but itself
NoFailureWitness ==
    /\ ScanDone
    /\ bestCircle # Null
    /\ Len(bestCircle.points) = 1
    /\ Len(Uncovered) >= 2

\* C11 Termination: the step that pushes a circle makes the uncovered list
\* strictly shorter, no step of the loop makes it longer, the function
\* returns only with the uncovered list empty, and once the loop is entered
\* the function does return.
Termination ==
    /\ [][PushStep => Len(arrays'[uncoveredPoints]) < Len(Uncovered)]_vars
    /\ [][(pc = "while" \/ pc = "for") =>
            Len(arrays'[uncoveredPoints]) <= Len(Uncovered)]_vars
    /\ [](pc = "done" => Uncovered = <<>>)
    /\ (pc = "while") ~> (pc = "done")

\* the loop has run several times on a full input and the function returned
TerminationWitness ==
    /\ pc = "done"
    /\ Len(Input) = MaxFewPoints
    /\ Len(circles) >= 2
    /\ Uncovered = <<>>

\* a step of the function: its entry, or a step of its loop
FunctionStep == pc' = "while" \/ pc = "while" \/ pc = "for"

\* C12 Purity: no step of the function changes the caller's list (length,
\* order, coordinates) or prints anything.
Purity ==
    [][FunctionStep => arrays'[points] = arrays[points] /\ stdout' = stdout]_vars

\* the function has emptied its working list and returned; the caller's
\* full list is still there
PurityWitness ==
    /\ pc = "done"
    /\ Len(Input) = MaxPoints
    /\ Uncovered = <<>>
    /\ stdout = <<>>

\* C13 Selection order: a step either leaves the circle sequence as it is
\* or, pushing, adds exactly the chosen circle at its end.
SelectionOrder ==
    [][IF PushStep THEN circles' = Append(circles, bestCircle)
                   ELSE circles' = circles]_vars

\* a second circle has been added behind a different first one
SelectionOrderWitness ==
    /\ pc = "while"
    /\ Len(circles) = 2
    /\ circles[1].center # circles[2].center
    /\ circles[2] = bestCircle

\* nothing of the covering computation has happened and nothing is printed
NothingComputed ==
    /\ uncoveredPoints = NoRef
    /\ circles = <<>>
    /\ bestCircle = Null
    /\ stdout = <<>>

\* C14 Invalid radius: with a zero or negative radius the script gets no
\* further than the option checks: it exits there, nothing is computed or
\* printed and the function never returns a cover.
InvalidRadiusRejected ==
    (options.radius # Undefined /\ options.radius <= 0) =>
        /\ pc \in {"options", "exit"}
        /\ NothingComputed

\* the script has exited on a negative radius, all other options given
InvalidRadiusRejectedWitness ==
    /\ pc = "exit"
    /\ options.radius # Undefined /\ options.radius < 0
    /\ options.input = GivenInput
    /\ options.type = GivenType
    /\ options.sid = GivenSid
    /\ NothingComputed

\* an entry of the list has a coordinate that is not a finite number
HasBadPoint(list) ==
    \E k \in 1..Len(list) :
        list[k].x \in {NaN, Infinity} \/ list[k].y \in {NaN, Infinity}

\* C15 Invalid coordinate: once the input holds a point with a non-finite
\* coordinate the script does not enter the covering computation; nothing
\* is computed or printed.
InvalidCoordinateRejected ==
    HasBadPoint(Input) =>
        /\ pc \in {"extract", "exit"}
        /\ NothingComputed

\* C16 Non-finite radius: with a NaN or infinite radius the script gets no
\* further than the option checks.
NonFiniteRadiusRejected ==
    options.radius \in {NaN, Infinity} =>
        /\ pc \in {"options", "exit"}
        /\ NothingComputed

\* entry k of the input has every entry of the input in its disk
IsHub(k) == \A m \in 1..Len(Input) : InDisk(Input[m], Input[k])

\* the first such entry in input order
FirstHub ==
    CHOOSE k \in 1..Len(Input) : IsHub(k) /\ \A j \in 1..(k - 1) : ~IsHub(j)

\* C17 Single cluster: if some input point has every input point within
\* the radius, the function returns exactly one circle, centered on the
\* first such point in input order and covering every occurrence.
SingleCluster ==
    (pc = "done" /\ \E k \in 1..Len(Input) : IsHub(k)) =>
        /\ Len(circles) = 1
        /\ circles[1].center = Input[FirstHub]
        /\ Len(circles[1].points) = Len(Input)

\* a return on a full input whose first point is no such point while a
\* later one is
SingleClusterWitness ==
    /\ pc = "done"
    /\ Len(Input) = MaxPoints
    /\ ~IsHub(1)
    /\ \E k \in 2..Len(Input) : IsHub(k)
    /\ Len(circles) = 1

\* every input point is farther than the radius from every other
Isolated ==
    \A a, b \in 1..Len(Input) : a # b => ~InDisk(Input[a], Input[b])

\* C18 Isolated points: if every input point is farther than the radius
\* from every other, the function returns one circle per point, centered on
\* the points in input order.
IsolatedPoints ==
    (pc = "done" /\ Isolated) =>
        /\ Len(circles) = Len(Input)
        /\ \A k \in 1..Len(Input) : circles[k].center = Input[k]

\* a return on a full input of isolated points
IsolatedPointsWitness ==
    /\ pc = "done"
    /\ Len(Input) = MaxPoints
    /\ Isolated
    /\ Len(circles) = MaxPoints

\* the points at the positions in S are pairwise within the radius
Clique(S) == \A a, b \in S : InDisk(Input[a], Input[b])

\* S and its complement are two groups, each pairwise within the radius,
\* with every cross pair farther apart than the radius
Splits(S) ==
    LET T == (1..Len(Input)) \ S
    IN  /\ S # {} /\ T # {}
        /\ Clique(S) /\ Clique(T)
        /\ \A a \in S, b \in T : ~InDisk(Input[a], Input[b])

\* C19 Two disjoint clusters: if the input splits into two such groups, the
\* function returns exactly two circles, one centered on a point of each group.
TwoClusters ==
    pc = "done" =>
        \A S \in SUBSET (1..Len(Input)) :
            Splits(S) =>
                /\ Len(circles) = 2
                /\ (circles[1].center.id \in S) # (circles[2].center.id \in S)

\* a return on a full input of two groups where the first circle is centered
\* in the group that does not hold the first point, and a pair of one group
\* is at distance exactly the radius
TwoClustersWitness ==
    /\ pc = "done"
    /\ Len(Input) = MaxPoints
    /\ \E S \in SUBSET (1..Len(Input)) :
          /\ Splits(S)
          /\ 1 \in S
          /\ circles[1].center.id \notin S
          /\ \E a, b \in 1..Len(Input) :
                Dist2(Input[a], Input[b]) = maxRadius * maxRadius

\* p lies in the closed disk of radius r around c
InDiskOf(p, c, r) == Dist2(p, c) <= r * r

\* how many entries of u lie in the disk of radius r around c
CountOf(u, c, r) == Cardinality({ k \in 1..Len(u) : InDiskOf(u[k], c, r) })

\* the position in u of the first candidate of maximal count for radius r
FirstBestOf(u, r) ==
    CHOOSE k \in 1..Len(u) :
        /\ \A m \in 1..Len(u) : CountOf(u, u[m], r) <= CountOf(u, u[k], r)
        /\ \A m \in 1..(k - 1) : CountOf(u, u[m], r) < CountOf(u, u[k], r)

\* the cover of the list u for radius r, as the function returns it when it
\* runs alone
RECURSIVE GreedyCover(_, _)
GreedyCover(u, r) ==
    IF u = <<>> THEN <<>>
    ELSE LET c == u[FirstBestOf(u, r)]
         IN  <<[center |-> c, radius |-> r,
                points |-> SelectSeq(u, LAMBDA p : InDiskOf(p, c, r))]>>
               \o GreedyCover(SelectSeq(u, LAMBDA p : ~InDiskOf(p, c, r)), r)

\* the locals of the first computation
firstFrame == <<uncoveredPoints, circles, bestCircle, maxCovered, i, pc>>

\* C20 Independence: a step of one computation leaves the frame, the input
\* and the working list of the other as they are, and each computation,
\* however the steps interleave, returns the cover of its own input.
Independence ==
    /\ [][/\ firstFrame' # firstFrame =>
               /\ other' = other
               /\ arrays'["arg2"] = arrays["arg2"]
               /\ arrays'["copy2"] = arrays["copy2"]
          /\ other' # other =>
               /\ firstFrame' = firstFrame
               /\ arrays'["arg"] = arrays["arg"]
               /\ arrays'["copy"] = arrays["copy"]]_vars
    /\ [](pc = "done" => circles = GreedyCover(arrays["arg"], maxRadius))
    /\ [](other.pc = "done" =>
             other.circles = GreedyCover(arrays["arg2"], other.maxRadius))

\* both computations are in the middle of a scan, the first in its second
\* iteration
IndependenceWitness ==
    /\ pc = "for"
    /\ Len(circles) = 1
    /\ bestCircle # Null
    /\ other.pc = "for"
    /\ other.bestCircle # Null

\* the cover returned by a single computation is the cover of its input
AloneCover == pc = "done" => circles = GreedyCover(Input, maxRadius)

\* C26 Point extraction: the list handed to computeMinimumCircles has one
\* point per entry of Objects, in the same order, and the point of an entry
\* with pos = [a, b, c] is (x = a, y = c).
PointExtraction ==
    pc # "extract" =>
        /\ Len(Input) = Len(arrays[Objects])
        /\ \A k \in 1..Len(Input) :
              /\ Input[k].x = arrays[Objects][k].pos[1]
              /\ Input[k].y = arrays[Objects][k].pos[3]
        /\ uncoveredPoints # NoRef =>
              \A k \in 1..Len(Uncovered) :
                  \E m \in 1..Len(Input) : Uncovered[k] = Input[m]

\* the function has been called on two points whose heights differ from
\* their y values, given in an order that sorting would change
PointExtractionWitness ==
    /\ pc = "while"
    /\ Len(arrays[Objects]) = 2
    /\ arrays[Objects][1].pos = <<1, 1, 0>>
    /\ arrays[Objects][2].pos = <<0, 0, 1>>
    /\ Len(Uncovered) = 2

\* the circles of the sequence whose points list holds the object p
Holders(p) ==
    { j \in 1..Len(circles) :
        \E m \in 1..Len(circles[j].points) : circles[j].points[m] = p }

\* the sum of the sizes of the points lists of the circles
RECURSIVE SumSizes(_)
SumSizes(cs) ==
    IF cs = <<>> THEN 0 ELSE Len(Head(cs).points) + SumSizes(Tail(cs))

\* C27 Occurrence accounting: in the returned value every input occurrence
\* is in the points list of exactly one circle, the first circle of the
\* sequence whose center is within the radius of it; no list holds an object
\* twice, and the sizes of the lists sum to the number of input points.
OccurrenceAccounting ==
    pc = "done" =>
        /\ \A k \in 1..Len(Input) :
              \E j \in 1..Len(circles) :
                  /\ Holders(Input[k]) = {j}
                  /\ InDisk(Input[k], circles[j].center)
                  /\ \A m \in 1..(j - 1) : ~InDisk(Input[k], circles[m].center)
        /\ \A j \in 1..Len(circles) :
              \A a, b \in 1..Len(circles[j].points) :
                  circles[j].points[a] = circles[j].points[b] => a = b
        /\ SumSizes(circles) = Len(Input)

\* two occurrences of the same coordinates are accounted for in the first
\* circle and a third point in the second
OccurrenceAccountingWitness ==
    /\ pc = "done"
    /\ Len(Input) = 3
    /\ Len(circles) = 2
    /\ Input[1].x = Input[3].x /\ Input[1].y = Input[3].y
    /\ Holders(Input[1]) = {1} /\ Holders(Input[3]) = {1}
    /\ Holders(Input[2]) = {2}

\* C28 Non-increasing coverage: along the sequence of circles the size of
\* the points list never grows from one circle to the next.
NonIncreasingCoverage ==
    \A j \in 1..(Len(circles) - 1) :
        Len(circles[j].points) >= Len(circles[j + 1].points)

\* the function returned a circle of two points followed by one of a single
\* point
NonIncreasingCoverageWitness ==
    /\ pc = "done"
    /\ Len(circles) = 2
    /\ Len(circles[1].points) = 2
    /\ Len(circles[2].points) = 1

\* ---- vocabulary of the properties of the warp script ----

\* the positions in the log of the writes, and of the writes of sets
Writes == { k \in 1..Len(io) : io[k].op = "write" }
SetWrites == { k \in Writes : ToLowerCase(io[k].path.ext) = ".json" }

\* the objects a write took from its source and the objects it wrote
Before(k) == disk[io[k].from].value.Objects
After(k) == disk[io[k].path].value.Objects

\* the difference of two positions
Diff(p, q) == <<p[1] - q[1], p[2] - q[2], p[3] - q[3]>>

\* an object has a pos array of at least three entries
Placed(obj) == "pos" \in DOMAIN obj /\ Len(obj.pos) >= 3

\* C21 Relational warp: for any two objects with a valid pos array, in the
\* same written set or in two of them, the difference of their positions in
\* the outputs is the difference of their positions in the inputs; the sets
\* keep their length and an object without a valid pos array is unchanged.
RelationalWarp ==
    \A k1, k2 \in SetWrites :
        /\ Len(After(k1)) = Len(Before(k1))
        /\ \A m1 \in 1..Len(Before(k1)) :
              IF Placed(Before(k1)[m1])
              THEN \A m2 \in 1..Len(Before(k2)) :
                      Placed(Before(k2)[m2]) =>
                          Diff(After(k1)[m1].pos, After(k2)[m2].pos)
                            = Diff(Before(k1)[m1].pos, Before(k2)[m2].pos)
              ELSE After(k1)[m1] = Before(k1)[m1]

\* a finished run has written the primary set, of two placed objects, and a
\* related set, moved along all three axes
RelationalWarpWitness ==
    /\ pc = "done"
    /\ translation.newDeltaX # 0
    /\ translation.newDeltaY # 0
    /\ translation.newDeltaZ # 0
    /\ \E k1, k2 \in SetWrites :
          /\ io[k1].from = argMap.inputSetPath
          /\ io[k2].from = Path("sets", "b", ".json")
          /\ Len(Before(k1)) = 2
          /\ Placed(Before(k1)[2])
          /\ After(k1)[2].pos # Before(k1)[2].pos

\* a number given on the command line, 0 for an offset that is not given
Given(v) == IF v = Undefined THEN 0 ELSE v

\* the place the command line asks for: the reference position of the warp
\* set if -iw is given, else the warp coordinates, plus the offsets
Asked ==
    LET at == IF argMap.warpSetPath # NoPath
              THEN disk[argMap.warpSetPath].value.Objects[1].pos
              ELSE <<argMap.warpX, argMap.warpY, argMap.warpZ>>
    IN  <<at[1] + Given(argMap.offsetX), at[2] + Given(argMap.offsetY),
          at[3] + Given(argMap.offsetZ)>>

NoFileTouched == \A k \in 1..Len(io) : io[k].op \notin {"read", "write"}

\* the run has not started or has ended in an error exit about the command
\* line, having touched no file
RejectedAtOnce ==
    /\ NoFileTouched
    /\ pc = "parse" \/ (pc = "exit" /\ io = <<ErrorExit(NoPath, "args")>>)

Related(path) ==
    /\ path.dir = argMap.inputSetRelationDir
    /\ ToLowerCase(path.ext) = ".json"
    /\ path # argMap.inputSetPath
    /\ path # argMap.warpSetPath

\* a file that does not parse or parses to a value without an Objects array
Unusable(path) ==
    /\ path \in DOMAIN disk
    /\ \/ disk[path].kind = "malformed"
       \/ disk[path].kind = "text" /\ "Objects" \notin DOMAIN disk[path].value

\* C24 Malformed JSON: a related file that is improperly formatted or has no
\* Objects array is skipped and the run goes on: it never ends in an error
\* exit about such a file.
MalformedSkipped ==
    \A k \in 1..Len(io) :
        io[k].op = "error" => ~(Related(io[k].path) /\ Unusable(io[k].path))

\* the run is over
Over == pc \in {"done", "exit", "crash"}

\* an operation on the file system has failed: a directory could not be
\* created or listed, a file could not be read or written
IoFailed ==
    \E k \in 1..Len(io) :
        /\ io[k].op = "error"
        /\ \/ io[k].why \in {"mkdir", "readdir", "write"}
           \/ io[k].why = "read" /\ disk[io[k].path].kind = "unreadable"

\* C25 Relation directory: once a run that listed the relation directory is
\* over, with no failure of the file system, the primary set has been written
\* exactly once, nothing has been written from the warp set, and every other
\* .json entry has been looked at and, if it has an Objects array, written to
\* its own -warp output.
RelationDirectory ==
    (/\ Over
     /\ ~IoFailed
     /\ \E k \in 1..Len(io) : io[k].op = "readdir") =>
        /\ Cardinality({ k \in Writes : io[k].from = argMap.inputSetPath }) = 1
        /\ \A k \in Writes : io[k].from # argMap.warpSetPath
        /\ \A file \in jsonFiles : ~Related(file)
        /\ \A k \in 1..Len(io) :
              (/\ io[k].op = "read"
               /\ Related(io[k].path)
               /\ disk[io[k].path].kind = "text"
               /\ "Objects" \in DOMAIN disk[io[k].path].value) =>
                  \E w \in Writes :
                      /\ io[w].from = io[k].path
                      /\ io[w].path.base = Append(io[k].path.base, "-warp")

\* C29 No re-warping of outputs: no file the run has written is read by it
\* afterwards.
NoRewarp ==
    \A k \in Writes :
        \A r \in (k + 1)..Len(io) :
            ~(io[r].op = "read" /\ io[r].path = io[k].path)

\* C30 as stated: a run that ended in an error exit has written no output.
NoPartialOutput == pc = "exit" => Writes = {}

\* the error exit is about the command line, the creation of the output
\* directory, the primary set or the warp set
EarlyExit ==
    /\ pc = "exit"
    /\ LET e == io[Len(io)]
       IN  \/ e.why = "args"
           \/ e.why = "mkdir"
           \/ /\ e.why \in {"read", "check"}
              /\ e.path \in {argMap.inputSetPath, argMap.warpSetPath}

\* C30 amended: a run that ended in an error exit about the command line,
\* the creation of the output directory, the primary set or the warp set
\* (unreadable, unparsable, no Objects array, no reference position) has
\* written no output.
NoOutputBeforeWarp == EarlyExit => Writes = {}

\* the offset version has computed the vector and then failed to create
\* the output directory
NoOutputBeforeWarpWitness ==
    /\ pc = "exit"
    /\ version = OffsetVersion
    /\ translation # Null
    /\ io[Len(io)].why = "mkdir"

====
